---- MODULE Spec2Model ----
(***************************************************************************)
(* Model of main.py: a recursive scan for image files, MD5 hashing of each *)
(* file in a process pool, grouping by digest and a text report.           *)
(*                                                                         *)
(* File names are sequences of one-character strings so that startswith,   *)
(* suffix and lower are computed, not assumed.  A file's content is a run  *)
(* of `size` bytes of value `fill`; the MD5 accumulator is abstracted to   *)
(* a (byte count, weighted sum) pair that is fed chunk by chunk, and the   *)
(* digest is its rendering as hexadecimal digits.                          *)
(***************************************************************************)
EXTENDS Integers, Sequences, FiniteSets, TLC

\* ------------------------------------------------------------------ bounds
\* Size of the process pool (ProcessPoolExecutor(): one worker per core).
NumWorkers == 2
\* Number of filesystem faults (deletion, I/O error) injected in one run.
MaxFaults == 2
\* Last reading of the clock, in half seconds
MaxClock == 2

\* ------------------------------------------------------- program constants
\* f.read(8192)
ChunkSize == 8192

\* ------------------------------------------------------------- characters
Up2Low ==
  ("A" :> "a") @@ ("B" :> "b") @@ ("C" :> "c") @@ ("D" :> "d") @@ ("E" :> "e") @@
  ("F" :> "f") @@ ("G" :> "g") @@ ("H" :> "h") @@ ("I" :> "i") @@ ("J" :> "j") @@
  ("K" :> "k") @@ ("L" :> "l") @@ ("M" :> "m") @@ ("N" :> "n") @@ ("O" :> "o") @@
  ("P" :> "p") @@ ("Q" :> "q") @@ ("R" :> "r") @@ ("S" :> "s") @@ ("T" :> "t") @@
  ("U" :> "u") @@ ("V" :> "v") @@ ("W" :> "w") @@ ("X" :> "x") @@ ("Y" :> "y") @@
  ("Z" :> "z")

\* str.lower()
lower(s) ==
  [i \in 1..Len(s) |-> IF s[i] \in DOMAIN Up2Low THEN Up2Low[s[i]] ELSE s[i]]

\* str.startswith(prefix)
startswith(s, prefix) ==
  /\ Len(s) >= Len(prefix)
  /\ SubSeq(s, 1, Len(prefix)) = prefix

\* str.rfind('.') with positions counted from 1; 0 when there is no dot
rfindDot(s) ==
  LET dots == {i \in 1..Len(s) : s[i] = "."}
  IN  IF dots = {} THEN 0 ELSE CHOOSE i \in dots : \A j \in dots : j <= i

\* PurePath.suffix: the last dot of the name and what follows it, unless the
\* dot is the first or the last character of the name
suffix(name) ==
  LET i == rfindDot(name)
  IN  IF 1 < i /\ i < Len(name) THEN SubSeq(name, i, Len(name)) ELSE <<>>

\* The extension allow-list
EXTENSIONS ==
  { <<".", "j", "p", "g">>, <<".", "j", "p", "e", "g">>, <<".", "p", "n", "g">>,
    <<".", "g", "i", "f">>, <<".", "b", "m", "p">>, <<".", "w", "e", "b", "p">>,
    <<".", "t", "i", "f", "f">>,
    <<".", "a", "r", "w">>,
    <<".", "c", "r", "2">>, <<".", "c", "r", "3">>,
    <<".", "n", "e", "f">>,
    <<".", "o", "r", "f">>,
    <<".", "r", "a", "f">>,
    <<".", "d", "n", "g">>,
    <<".", "r", "w", "2">> }

\* ------------------------------------------------------------- filesystem
\* The directory entries that may exist.  Node 1 is the target path given
\* on the command line; node 12 lives beside it, outside the scanned tree.
Root == 1

Tree ==
  <<
    [parent |-> 0, kind |-> "dir",  name |-> <<"t">>],                          \* 1  t/
    [parent |-> 1, kind |-> "file", name |-> <<"a", ".", "j", "p", "g">>],      \* 2  t/a.jpg
    [parent |-> 1, kind |-> "file", name |-> <<"B", ".", "J", "P", "G">>],      \* 3  t/B.JPG
    [parent |-> 1, kind |-> "dir",  name |-> <<"s">>],                          \* 4  t/s/
    [parent |-> 4, kind |-> "file", name |-> <<"c", ".", "x", ".", "p", "n", "g">>], \* 5  t/s/c.x.png
    [parent |-> 1, kind |-> "dir",  name |-> <<".", "h">>],                     \* 6  t/.h/
    [parent |-> 6, kind |-> "file", name |-> <<"d", ".", "C", "r", "2">>],      \* 7  t/.h/d.Cr2
    [parent |-> 1, kind |-> "file", name |-> <<".", "c", ".", "j", "p", "g">>], \* 8  t/.c.jpg
    [parent |-> 1, kind |-> "file", name |-> <<"n", ".", "t", "x", "t">>],      \* 9  t/n.txt
    [parent |-> 4, kind |-> "dir",  name |-> <<"e", ".", "g", "i", "f">>],      \* 10 t/s/e.gif/
    [parent |-> 10, kind |-> "file", name |-> <<"j", "p", "g">>],               \* 11 t/s/e.gif/jpg
    [parent |-> 0, kind |-> "file", name |-> <<"o", ".", "j", "p", "g">>]       \* 12 o.jpg
  >>

Nodes == DOMAIN Tree
NodeOrder == [i \in 1..Len(Tree) |-> i]

\* The entries whose presence varies from run to run
Candidates == {2, 3, 5, 7}
\* The entries whose content varies from run to run
Variable == {2, 3, 5}
\* The entries that exist whenever the target directory does
Fixed == {4, 6, 8, 9, 10, 11}

\* File contents: `size` bytes, each of value `fill`
Contents == { [size |-> 8192, fill |-> 1], [size |-> 8193, fill |-> 1] }
DefaultContent == [size |-> 8192, fill |-> 1]

VARIABLES
  rootKind,    \* what the target path is: "dir", "file" or "missing"
  present,     \* the directory entries that exist
  content,     \* content of every file
  fstate,      \* per entry: "ok", "deleted" or "ioerror"
  faults,      \* number of faults injected so far
  pc,          \* position of main()
  files,       \* the enumerated file list
  task,        \* per index of files: the pool's work item
  completed,   \* indices of the work items in the order they finished
  collected,   \* number of results the coordinator has consumed
  delivered,   \* the results the coordinator has consumed, in order
  results,     \* the defaultdict, as the sequence of its items
  duplicates,  \* the dict of duplicates, as the sequence of its items
  outFiles,    \* the report files this run has written
  stdout,      \* the lines printed
  exitStatus,  \* process exit status, -1 while running
  crashed,     \* indices of the work items whose worker process died
  logOrder,    \* whether this run keeps the history variable `completed`
  now,         \* the wall clock, in half seconds
  disk,        \* the report files of the working directory
  second,      \* whether this is the second run over the same tree
  prevReport   \* the report files the previous run has written

vars == << rootKind, present, content, fstate, faults, pc, files, task,
           completed, collected, delivered, results, duplicates, outFiles, stdout,
           exitStatus, crashed, logOrder, now, disk, second, prevReport >>

runVars == << now, second, prevReport >>
envVars == << rootKind, present, content, runVars >>
fsVars == << rootKind, present, content, fstate, faults, runVars >>
poolVars == << task, completed, crashed, logOrder >>
mainVars == << pc, files, collected, delivered, results, duplicates, outFiles, disk,
              stdout, exitStatus >>

\* ------------------------------------------------------------------ paths
RECURSIVE str(_)
\* str(file_path): the names from the target directory down to the entry
str(n) ==
  IF Tree[n].parent = 0 THEN << Tree[n].name >>
  ELSE Append(str(Tree[n].parent), Tree[n].name)

\* Path.is_dir()
is_dir(n) ==
  IF n = Root THEN rootKind = "dir"
  ELSE n \in present /\ Tree[n].kind = "dir"

\* Path.is_file()
is_file(n) ==
  /\ n # Root
  /\ n \in present
  /\ Tree[n].kind = "file"
  /\ fstate[n] # "deleted"

\* os.scandir(d): the entries of directory d, in directory order
scandir(d) ==
  SelectSeq(NodeOrder, LAMBDA n : n \in present /\ Tree[n].parent = d)

RECURSIVE rglobDirs(_)
\* The directories that '**' selects: the start directory and, depth
\* first, every directory below it
rglobDirs(ds) ==
  IF ds = <<>> THEN <<>>
  ELSE LET d == Head(ds)
           subs == SelectSeq(scandir(d), LAMBDA n : Tree[n].kind = "dir")
       IN  <<d>> \o rglobDirs(subs) \o rglobDirs(Tail(ds))

RECURSIVE flatScan(_)
flatScan(ds) ==
  IF ds = <<>> THEN <<>> ELSE scandir(Head(ds)) \o flatScan(Tail(ds))

\* target_dir.rglob('*'): every entry below the directory
rglob(d) ==
  IF is_dir(d) THEN flatScan(rglobDirs(<<d>>)) ELSE <<>>

\* The filter of the list comprehension (mutant: the hidden-file test is lost)
IsImageFileNoHidden(p) ==
  /\ is_file(p)
  /\ lower(suffix(Tree[p].name)) \in EXTENSIONS

\* The filter of the list comprehension
IsImageFile(p) ==
  /\ is_file(p)
  /\ ~ startswith(Tree[p].name, <<".">>)
  /\ lower(suffix(Tree[p].name)) \in EXTENSIONS

\* files = [p for p in target_dir.rglob('*') if ...]
ListFiles(d) == SelectSeq(rglob(d), IsImageFile)

\* ---------------------------------------------------------------- hashing
None == [present |-> FALSE, hex |-> <<>>]

HexDigit ==
  << "0", "1", "2", "3", "4", "5", "6", "7",
     "8", "9", "a", "b", "c", "d", "e", "f" >>

\* hashlib.md5()
md5_new == [n |-> 0, s |-> 0]

\* hash_md5.update(chunk)
md5_update(acc, chunk) ==
  [n |-> acc.n + chunk.len,
   s |-> (acc.s + chunk.len * (chunk.fill + 1)) % 65536]

\* hash_md5.hexdigest(): lowercase hexadecimal digits, fixed length
hexdigest(acc) ==
  LET v == (acc.s * 257 + acc.n) % 65536
  IN  [present |-> TRUE,
       hex |-> << HexDigit[((v \div 4096) % 16) + 1], HexDigit[((v \div 256) % 16) + 1],
                  HexDigit[((v \div 16) % 16) + 1],   HexDigit[(v % 16) + 1] >>]

Min(a, b) == IF a <= b THEN a ELSE b

\* f.read(8192) at offset pos of entry p
read(p, pos) ==
  [len |-> Min(ChunkSize, content[p].size - pos), fill |-> content[p].fill]

\* Outcome of a work item: a returned pair, or an exception set on its future
Returned(p, d) == [kind |-> "ret", path |-> str(p), digest |-> d, exc |-> "-"]
Raised(p, e) == [kind |-> "raise", path |-> str(p), digest |-> None, exc |-> e]
NoResult == [kind |-> "-", path |-> <<>>, digest |-> None, exc |-> "-"]

\* return str(file_path), hash_md5.hexdigest()
HashReturn(p, acc) == Returned(p, hexdigest(acc))

\* The except clause (mutant: the exception is let through)
HashExceptReraise(p) == Raised(p, "OSError")

\* except Exception: return str(file_path), None
HashExcept(p) == Returned(p, None)

\* bool(file_hash)
Truthy(d) == d.present /\ Len(d.hex) > 0

\* ------------------------------------------------------------ aggregation
\* The update of the map (mutant: results[h] = [path], the list is replaced)
AddResultOverwrite(res, h, path) ==
  IF \E i \in 1..Len(res) : res[i].h = h
  THEN [i \in 1..Len(res) |->
          IF res[i].h = h THEN [res[i] EXCEPT !.paths = <<path>>] ELSE res[i]]
  ELSE Append(res, [h |-> h, paths |-> <<path>>])

\* results[h].append(path) on a defaultdict(list): a new key goes last
AddResult(res, h, path) ==
  IF \E i \in 1..Len(res) : res[i].h = h
  THEN [i \in 1..Len(res) |->
          IF res[i].h = h THEN [res[i] EXCEPT !.paths = Append(@, path)] ELSE res[i]]
  ELSE Append(res, [h |-> h, paths |-> <<path>>])

\* The loop body (mutant: the test of file_hash is lost)
MergeUnchecked(res, r) == AddResult(res, r.digest.hex, r.path)

\* if file_hash: results[file_hash].append(path_str)
Merge(res, r) ==
  IF Truthy(r.digest) THEN AddResult(res, r.digest.hex, r.path) ELSE res

\* The duplicate filter (mutant: len(paths) > 0)
ExtractAll(res) == SelectSeq(res, LAMBDA e : Len(e.paths) > 0)

RECURSIVE Reverse(_)
Reverse(q) == IF q = <<>> THEN <<>> ELSE Append(Reverse(Tail(q)), Head(q))

\* The duplicate filter (mutant: the groups come out in another order, as
\* from a container that does not keep insertion order)
ExtractReordered(res) == Reverse(SelectSeq(res, LAMBDA e : Len(e.paths) > 1))

\* duplicates = {h: paths for h, paths in results.items() if len(paths) > 1}
ExtractDuplicates(res) == SelectSeq(res, LAMBDA e : Len(e.paths) > 1)

\* ----------------------------------------------------------------- report
Line(t, i, h, p) == [t |-> t, i |-> i, h |-> h, p |-> p]

RECURSIVE PathLines(_)
PathLines(paths) ==
  IF paths = <<>> THEN <<>>
  ELSE << Line("path", 0, <<>>, Head(paths)) >> \o PathLines(Tail(paths))

RECURSIVE GroupLinesFromZero(_, _)
\* The group listing (mutant: enumerate() without its start argument)
GroupLinesFromZero(dups, i) ==
  IF dups = <<>> THEN <<>>
  ELSE << Line("group", i - 1, Head(dups).h, <<>>) >>
       \o PathLines(Head(dups).paths)
       \o << Line("blank", 0, <<>>, <<>>) >>
       \o GroupLinesFromZero(Tail(dups), i + 1)

RECURSIVE GroupLines(_, _)
\* for i, (h, paths) in enumerate(duplicates.items(), 1): ...
GroupLines(dups, i) ==
  IF dups = <<>> THEN <<>>
  ELSE << Line("group", i, Head(dups).h, <<>>) >>
       \o PathLines(Head(dups).paths)
       \o << Line("blank", 0, <<>>, <<>>) >>
       \o GroupLines(Tail(dups), i + 1)

\* The total written (mutant: the files that could not be read are left out)
ScanTotalReadable(fs) == Len(SelectSeq(fs, LAMBDA p : fstate[p] = "ok"))

\* len(files)
ScanTotal(fs) == Len(fs)

\* The text written to the output file
ReportLines(fs, dups) ==
  << Line("header", 0, <<>>, <<>>),
     Line("target", 0, <<>>, str(Root)),
     Line("total", ScanTotal(fs), <<>>, <<>>),
     Line("blank", 0, <<>>, <<>>) >>
  \o IF dups = <<>>
     THEN << Line("nodup", 0, <<>>, <<>>) >>
     ELSE << Line("count", Len(dups), <<>>, <<>>), Line("blank", 0, <<>>, <<>>) >>
          \o GroupLines(dups, 1)

\* ------------------------------------------------------------------- Init
QueuedTask == [st |-> "queued", pos |-> 0, acc |-> md5_new, res |-> NoResult]

InitRun ==
  /\ rootKind \in {"dir", "file", "missing"}
  /\ \E chosen \in SUBSET Candidates :
       present = IF rootKind = "dir" THEN Fixed \cup chosen \cup {12} ELSE {12}
  /\ \E cc \in [Variable -> Contents] :
       content = [n \in Nodes |->
                    IF n \in present \cap Variable THEN cc[n] ELSE DefaultContent]
  /\ fstate = [n \in Nodes |-> "ok"]
  /\ faults = 0
  /\ pc = "start"
  /\ files = <<>>
  /\ task = <<>>
  /\ completed = <<>>
  /\ collected = 0
  /\ delivered = <<>>
  /\ results = <<>>
  /\ duplicates = <<>>
  /\ outFiles = <<>>
  /\ stdout = <<>>
  /\ exitStatus = -1
  /\ crashed = {}
  /\ now = 0
  /\ disk = {}
  /\ second = FALSE
  /\ prevReport = <<>>

Init == InitRun /\ logOrder = FALSE

\* The same initial states, with the completion order recorded
InitOrder == InitRun /\ logOrder = TRUE

\* ----------------------------------------------------------- main(): steps
\* The directory test (mutant: the test is lost)
TargetAccepted(d) == TRUE

\* target_dir.is_dir()
TargetIsDir(d) == is_dir(d)

\* sys.exit(n), return from main(), or an exception main() does not catch
Exit(status, lines) ==
  /\ pc' = "exited"
  /\ exitStatus' = status
  /\ stdout' = stdout \o lines

\* if not target_dir.is_dir(): print(...); sys.exit(1)
Preflight ==
  /\ pc = "start"
  /\ IF TargetIsDir(Root)
     THEN /\ pc' = "enumerate"
          /\ stdout' = Append(stdout, "scanning")
          /\ UNCHANGED exitStatus
     ELSE Exit(1, <<"error">>)
  /\ UNCHANGED << fsVars, poolVars, files, collected, delivered, results, duplicates,
                  outFiles, disk >>

\* files = [...]; if not files: return; results = defaultdict(list);
\* executor.map(calculate_hash, files) submits one work item per file
Enumerate ==
  /\ pc = "enumerate"
  /\ files' = ListFiles(Root)
  /\ IF files' = <<>>
     THEN /\ Exit(0, <<"nofiles">>)
          /\ UNCHANGED task
     ELSE /\ pc' = "hashing"
          /\ stdout' = Append(stdout, "checking")
          /\ task' = [i \in 1..Len(files') |-> QueuedTask]
          /\ UNCHANGED exitStatus
  /\ results' = <<>>
  /\ UNCHANGED << fsVars, completed, crashed, logOrder, collected, delivered, duplicates,
                  outFiles, disk >>

\* The result loop (mutant: the loop ends at the first absent digest)
CollectBreak ==
  /\ pc = "hashing"
  /\ collected < Len(files)
  /\ task[collected + 1].st = "done"
  /\ LET r == task[collected + 1].res
     IN  IF r.kind = "raise"
         THEN /\ Exit(1, <<"traceback">>)
              /\ UNCHANGED << collected, delivered, results >>
         ELSE /\ collected' = IF Truthy(r.digest) THEN collected + 1 ELSE Len(files)
              /\ delivered' = Append(delivered, r)
              /\ results' = Merge(results, r)
              /\ UNCHANGED << pc, stdout, exitStatus >>
  /\ UNCHANGED << fsVars, poolVars, files, duplicates, outFiles, disk >>

\* The result loop (mutant: results are taken as they complete, as with
\* concurrent.futures.as_completed)
CollectAsCompleted ==
  /\ pc = "hashing"
  /\ collected < Len(files)
  /\ \E t \in DOMAIN task :
       /\ task[t].st = "done"
       /\ \A i \in DOMAIN delivered : delivered[i].path # str(files[t])
       /\ LET r == task[t].res
          IN  IF r.kind = "raise"
              THEN /\ Exit(1, <<"traceback">>)
                   /\ UNCHANGED << collected, delivered, results >>
              ELSE /\ collected' = collected + 1
                   /\ delivered' = Append(delivered, r)
                   /\ results' = Merge(results, r)
                   /\ UNCHANGED << pc, stdout, exitStatus >>
  /\ UNCHANGED << fsVars, poolVars, files, duplicates, outFiles, disk >>

\* One iteration of `for path_str, file_hash in executor.map(...)`: the next
\* result in the order of the input list; an exception set on the future is
\* raised here and leaves main()
Collect ==
  /\ pc = "hashing"
  /\ collected < Len(files)
  /\ task[collected + 1].st = "done"
  /\ LET r == task[collected + 1].res
     IN  IF r.kind = "raise"
         THEN /\ Exit(1, <<"traceback">>)
              /\ UNCHANGED << collected, delivered, results >>
         ELSE /\ collected' = collected + 1
              /\ delivered' = Append(delivered, r)
              /\ results' = Merge(results, r)
              /\ UNCHANGED << pc, stdout, exitStatus >>
  /\ UNCHANGED << fsVars, poolVars, files, duplicates, outFiles, disk >>

\* The results are exhausted: the pool shuts down, duplicates are extracted
Extract ==
  /\ pc = "hashing"
  /\ collected = Len(files)
  /\ duplicates' = ExtractDuplicates(results)
  /\ pc' = "write"
  /\ UNCHANGED << fsVars, poolVars, files, collected, delivered, results, outFiles, disk,
                  stdout, exitStatus >>

\* datetime.now().strftime("%Y%m%d_%H%M%S"): the clock cut to whole seconds
strftime(t) == t \div 2

\* f"result_{timestamp}.txt"
OutputFile(t) == << "result_", strftime(t), ".txt" >>

\* open(name, "w") and the writes: a file of that name is replaced
WriteFile(d, name, lines) ==
  {f \in d : f.name # name}
    \cup {[name |-> name, lines |-> lines, run |-> IF second THEN 2 ELSE 1]}

\* with open(output_file, "w") as f: ...; print(...)
WriteReport ==
  /\ pc = "write"
  /\ outFiles' = Append(outFiles, ReportLines(files, duplicates))
  /\ disk' = WriteFile(disk, OutputFile(now), ReportLines(files, duplicates))
  /\ Exit(0, IF duplicates # <<>> THEN <<"done", "dupwarn">> ELSE <<"done">>)
  /\ UNCHANGED << fsVars, poolVars, files, collected, delivered, results, duplicates >>

\* The failed write (mutant: the error is swallowed and the run ends normally)
WriteFailsQuietly ==
  /\ pc = "write"
  /\ Exit(0, <<"done">>)
  /\ UNCHANGED << fsVars, poolVars, files, collected, delivered, results, duplicates,
                  outFiles, disk >>

\* open(output_file, "w") raises OSError: nothing in main() catches it
WriteFails ==
  /\ pc = "write"
  /\ Exit(1, <<"traceback">>)
  /\ UNCHANGED << fsVars, poolVars, files, collected, delivered, results, duplicates,
                  outFiles, disk >>

\* ------------------------------------------------------- the process pool
Running == {t \in DOMAIN task : task[t].st = "running"}

Finish(t, r) ==
  /\ task' = [task EXCEPT ![t] = [@ EXCEPT !.st = "done", !.res = r]]
  /\ completed' = IF logOrder THEN Append(completed, t) ELSE completed

\* A free worker takes the oldest queued work item and enters
\* calculate_hash: hash_md5 = hashlib.md5(); open(file_path, "rb")
Start(t) ==
  /\ pc = "hashing"
  /\ t \in DOMAIN task
  /\ task[t].st = "queued"
  /\ \A u \in 1..(t - 1) : task[u].st # "queued"
  /\ Cardinality(Running) < NumWorkers
  /\ IF fstate[files[t]] = "ok"
     THEN /\ task' = [task EXCEPT ![t] = [@ EXCEPT !.st = "running", !.pos = 0,
                                                   !.acc = md5_new]]
          /\ UNCHANGED completed
     ELSE Finish(t, HashExcept(files[t]))
  /\ UNCHANGED << fsVars, mainVars, crashed, logOrder >>

\* The read loop (mutant: the worker appends its digest to the shared map
\* itself, as a thread sharing the coordinator's memory could)
ReadSharedMap(t) ==
  /\ pc = "hashing"
  /\ t \in DOMAIN task
  /\ task[t].st = "running"
  /\ LET p == files[t]
         chunk == read(p, task[t].pos)
     IN  IF fstate[p] = "ioerror"
         THEN Finish(t, HashExcept(p)) /\ UNCHANGED results
         ELSE IF chunk.len = 0
         THEN /\ Finish(t, HashReturn(p, task[t].acc))
              /\ results' = Merge(results, HashReturn(p, task[t].acc))
         ELSE /\ task' = [task EXCEPT ![t] = [@ EXCEPT !.pos = @ + chunk.len,
                                                       !.acc = md5_update(@, chunk)]]
              /\ UNCHANGED << completed, results >>
  /\ UNCHANGED << fsVars, pc, files, collected, delivered, duplicates, outFiles, disk,
                  stdout, exitStatus, crashed, logOrder >>

\* One iteration of `for chunk in iter(lambda: f.read(8192), b"")`
Read(t) ==
  /\ pc = "hashing"
  /\ t \in DOMAIN task
  /\ task[t].st = "running"
  /\ LET p == files[t]
         chunk == read(p, task[t].pos)
     IN  IF fstate[p] = "ioerror"
         THEN Finish(t, HashExcept(p))
         ELSE IF chunk.len = 0
         THEN Finish(t, HashReturn(p, task[t].acc))
         ELSE /\ task' = [task EXCEPT ![t] = [@ EXCEPT !.pos = @ + chunk.len,
                                                       !.acc = md5_update(@, chunk)]]
              /\ UNCHANGED completed
  /\ UNCHANGED << fsVars, mainVars, crashed, logOrder >>

\* The worker process running work item t dies (killed, out of memory): the
\* executor sets BrokenProcessPool on every future that is not done
WorkerCrash(t) ==
  /\ pc = "hashing"
  /\ t \in DOMAIN task
  /\ task[t].st = "running"
  /\ crashed' = crashed \cup {t}
  /\ task' = [u \in DOMAIN task |->
                IF task[u].st = "done" THEN task[u]
                ELSE [task[u] EXCEPT !.st = "done",
                                     !.res = Raised(files[u], "BrokenProcessPool")]]
  /\ UNCHANGED << fsVars, mainVars, completed, logOrder >>

\* ------------------------------------------------------------- environment
\* A fault can change the run only while the file's work item is not done
CanFault(n, st) ==
  /\ pc = "hashing"
  /\ faults < MaxFaults
  /\ ~ second
  /\ fstate[n] = "ok"
  /\ \E t \in DOMAIN task : files[t] = n /\ task[t].st = st

\* The file is deleted, or loses its read permission, between enumeration
\* and the start of its hashing: open() fails
Delete(n) ==
  /\ CanFault(n, "queued")
  /\ fstate' = [fstate EXCEPT ![n] = "deleted"]
  /\ faults' = faults + 1
  /\ UNCHANGED << envVars, poolVars, mainVars >>

\* The device fails while the file is being read: read() fails
IOError(n) ==
  /\ CanFault(n, "running")
  /\ fstate' = [fstate EXCEPT ![n] = "ioerror"]
  /\ faults' = faults + 1
  /\ UNCHANGED << envVars, poolVars, mainVars >>

\* The wall clock advances; main() reads it only when it names the report
Tick ==
  /\ pc = "write"
  /\ now < MaxClock
  /\ now' = now + 1
  /\ UNCHANGED << rootKind, present, content, fstate, faults, second, prevReport,
                  poolVars, mainVars >>

\* The program is started again on the same tree, in the same working
\* directory, after a run that wrote its report
Rerun ==
  /\ pc = "exited"
  /\ outFiles # <<>>
  /\ ~ second
  /\ second' = TRUE
  /\ prevReport' = outFiles
  /\ pc' = "start"
  /\ files' = <<>>
  /\ task' = <<>>
  /\ completed' = <<>>
  /\ collected' = 0
  /\ delivered' = <<>>
  /\ results' = <<>>
  /\ duplicates' = <<>>
  /\ outFiles' = <<>>
  /\ stdout' = <<>>
  /\ exitStatus' = -1
  /\ UNCHANGED << rootKind, present, content, fstate, faults, crashed, logOrder,
                  now, disk >>

\* ---------------------------------------------------------- specifications
MaxTasks == Cardinality(Candidates)

Next ==
  \/ Preflight
  \/ Enumerate
  \/ Collect
  \/ Extract
  \/ WriteReport
  \/ WriteFails
  \/ \E t \in 1..MaxTasks : Start(t)
  \/ \E t \in 1..MaxTasks : Read(t)
  \/ \E n \in Candidates : Delete(n)
  \/ \E n \in Candidates : IOError(n)

Spec == Init /\ [][Next]_vars

\* The pool's workers and the coordinator keep running
Fairness ==
  /\ WF_vars(Preflight)
  /\ WF_vars(Enumerate)
  /\ WF_vars(Collect)
  /\ WF_vars(Extract)
  /\ \A t \in 1..MaxTasks : WF_vars(Start(t)) /\ WF_vars(Read(t))

FairSpec == Spec /\ Fairness

\* The same program with the order of completion kept as a history variable
SpecOrder == InitOrder /\ [][Next]_vars

\* The same program with worker processes that may die
NextCrash ==
  \/ Next
  \/ \E t \in 1..MaxTasks : WorkerCrash(t)

SpecCrash == Init /\ [][NextCrash]_vars

\* Two runs, one after the other, over the same tree
NextRerun ==
  \/ Next
  \/ Rerun

SpecRerun == Init /\ [][NextRerun]_vars

\* Two runs in the same working directory, with the clock running
NextClock ==
  \/ Next
  \/ Rerun
  \/ Tick

SpecClock == Init /\ [][NextClock]_vars

\* ================================================================ claims
\* Vocabulary of the properties, defined from the filesystem and the report
\* text rather than from the program's intermediate values.

\* The tasks' indices and the enumerated entries
Tasks == DOMAIN files
Enumerated == {files[t] : t \in Tasks}

\* An enumerated entry whose open() or read() failed during hashing
HashFailed(n) == fstate[n] # "ok"

\* The digest of a whole content, taken in one piece
WholeDigest(c) == hexdigest(md5_update(md5_new, [len |-> c.size, fill |-> c.fill]))

\* The group listings of a report text: the digest of each "Group" line and
\* the paths of the lines below it
RECURSIVE ReadGroups(_, _)
ReadGroups(lines, acc) ==
  IF lines = <<>> THEN acc
  ELSE LET l == Head(lines)
       IN  IF l.t = "group"
           THEN ReadGroups(Tail(lines), Append(acc, [h |-> l.h, paths |-> <<>>]))
           ELSE IF l.t = "path" /\ acc # <<>>
           THEN ReadGroups(Tail(lines),
                  [acc EXCEPT ![Len(acc)] = [@ EXCEPT !.paths = Append(@, l.p)]])
           ELSE ReadGroups(Tail(lines), acc)

\* The report has been written
Reported == outFiles # <<>>

\* The duplicate groups listed in the report
ReportGroups == IF Reported THEN ReadGroups(outFiles[1], <<>>) ELSE <<>>

\* The number written on the "Total Scanned" line
ReportTotal ==
  LET i == CHOOSE i \in DOMAIN outFiles[1] : outFiles[1][i].t = "total"
  IN  outFiles[1][i].i

Members(g) == {g.paths[i] : i \in DOMAIN g.paths}
GroupsOf(path) == {i \in DOMAIN ReportGroups : path \in Members(ReportGroups[i])}

\* C1: a file whose open or read fails yields the pair (path, None) and no
\* exception, is listed in no group of the report, and does not end the run:
\* a run that enumerated files exits only after every result was collected,
\* and with a non-zero status only when the report could not be written.
C1_HashFailureTolerated ==
  /\ \A t \in DOMAIN task :
       (task[t].st = "done" /\ HashFailed(files[t]))
          => task[t].res = [kind |-> "ret", path |-> str(files[t]),
                            digest |-> None, exc |-> "-"]
  /\ \A n \in Enumerated : HashFailed(n) => GroupsOf(str(n)) = {}
  /\ (pc = "exited" /\ files # <<>>) =>
        /\ collected = Len(files)
        /\ Len(delivered) = Len(files)
        /\ exitStatus = 0 <=> Reported

C1_Witness ==
  /\ pc = "exited" /\ exitStatus = 0 /\ Reported
  /\ \E n \in Enumerated : fstate[n] = "deleted"
  /\ \E n \in Enumerated : fstate[n] = "ioerror"
  /\ ReportGroups # <<>>

\* C2: every group listed in the report has at least two member paths, and
\* no enumerated path is listed in more than one group (or twice in one).
C2_GroupsDisjoint ==
  Reported =>
    /\ \A i \in DOMAIN ReportGroups :
         /\ Len(ReportGroups[i].paths) >= 2
         /\ Cardinality(Members(ReportGroups[i])) = Len(ReportGroups[i].paths)
    /\ \A n \in Enumerated : Cardinality(GroupsOf(str(n))) <= 1

C2_Witness ==
  /\ Reported
  /\ Len(files) = 4
  /\ Len(ReportGroups) = 2

\* C3: the reported groups are the classes of size >= 2 of the successfully
\* hashed files under digest equality: two enumerated files share a group
\* iff both were hashed and their contents have the same digest, and a
\* hashed file is in a group iff another hashed file has its digest; each
\* group is headed by the digest of its members.
C3_GroupsAreDigestClasses ==
  Reported =>
    /\ \A n, m \in Enumerated :
         n # m =>
           ( (GroupsOf(str(n)) \cap GroupsOf(str(m)) # {})
             <=> ( /\ ~ HashFailed(n)
                   /\ ~ HashFailed(m)
                   /\ WholeDigest(content[n]) = WholeDigest(content[m]) ) )
    /\ \A n \in Enumerated :
         (GroupsOf(str(n)) # {})
           <=> ( /\ ~ HashFailed(n)
                 /\ \E m \in Enumerated \ {n} :
                      ~ HashFailed(m) /\ WholeDigest(content[m]) = WholeDigest(content[n]) )
    /\ \A n \in Enumerated : \A i \in GroupsOf(str(n)) :
         ReportGroups[i].h = WholeDigest(content[n]).hex
    /\ \A i \in DOMAIN ReportGroups :
         \A p \in Members(ReportGroups[i]) : \E n \in Enumerated : str(n) = p

C3_Witness ==
  /\ Reported
  /\ Len(files) = 4
  /\ Len(ReportGroups) = 1
  /\ Len(ReportGroups[1].paths) = 2
  /\ Cardinality({n \in Enumerated : HashFailed(n)}) = 1
  /\ \E n \in Enumerated : ~ HashFailed(n) /\ GroupsOf(str(n)) = {}

\* C4: a crash inside one unit of work, the death of its worker process
\* included, is recorded by the coordinator as an absent digest for that
\* file, leaves every other unit of work with a returned pair of its own,
\* and does not end the run before all results are collected.
C4_CrashIsolated ==
  /\ \A t \in crashed :
       task[t].res = [kind |-> "ret", path |-> str(files[t]),
                      digest |-> None, exc |-> "-"]
  /\ \A t \in DOMAIN task : task[t].st = "done" => task[t].res.kind = "ret"
  /\ (pc = "exited" /\ files # <<>>) => collected = Len(files)

\* C5: when the target path is missing or is no directory, the run prints
\* an error and exits with a non-zero status, and it never enumerates,
\* never dispatches a work item and never writes a report.
C5_BadTargetAborts ==
  rootKind # "dir" =>
    /\ pc \in {"start", "exited"}
    /\ files = <<>> /\ task = <<>> /\ outFiles = <<>>
    /\ pc = "exited" => (exitStatus # 0 /\ stdout = <<"error">>)

C5_Witness ==
  /\ rootKind = "missing"
  /\ pc = "exited"
  /\ exitStatus = 1

\* C7 as stated: every run that exits with status 0 has written exactly one
\* report file.
C7_SuccessWritesOneReport ==
  (pc = "exited" /\ exitStatus = 0) => Len(outFiles) = 1

\* C7 as amended: a run that exits with status 0 after enumerating at least
\* one file has written exactly one report file, built from the final
\* duplicates; a run that enumerates no file exits with status 0 and writes
\* none; no run writes more than one.
C7_SuccessWritesOneReportIfFiles ==
  /\ Len(outFiles) <= 1
  /\ (pc = "exited" /\ exitStatus = 0) =>
        IF files = <<>> THEN outFiles = <<>>
        ELSE /\ Len(outFiles) = 1
             /\ ReportGroups = duplicates
             /\ stdout[Len(stdout)] \in {"done", "dupwarn"}

C7_Witness ==
  /\ pc = "exited" /\ exitStatus = 0
  /\ Len(files) >= 2
  /\ Len(outFiles) = 1

\* C8: the total written in the report is the number of enumerated files,
\* the files whose hashing failed included; the failures lower only the
\* number of paths that were merged into the digest map.
C8_TotalCountsFailures ==
  Reported =>
    /\ ReportTotal = Cardinality(Enumerated)
    /\ ReportTotal = Len(files)
    /\ Cardinality(UNION {Members(results[i]) : i \in DOMAIN results})
         = Cardinality({n \in Enumerated : ~ HashFailed(n)})

C8_Witness ==
  /\ Reported
  /\ ReportTotal = 4
  /\ Cardinality({n \in Enumerated : HashFailed(n)}) = 1

\* Case-insensitive equality of two strings, letter by letter
SameLetter(a, b) ==
  \/ a = b
  \/ a \in DOMAIN Up2Low /\ Up2Low[a] = b
  \/ b \in DOMAIN Up2Low /\ Up2Low[b] = a

EndsWithAnyCase(name, ext) ==
  /\ Len(name) > Len(ext)
  /\ \A i \in 1..Len(ext) : SameLetter(name[Len(name) - Len(ext) + i], ext[i])

RECURSIVE Reachable(_)
\* The entry exists and every directory above it, up to the target, exists
Reachable(n) ==
  /\ n \in present
  /\ Tree[n].parent # 0
  /\ \/ Tree[n].parent = Root
     \/ Tree[Tree[n].parent].kind = "dir" /\ Reachable(Tree[n].parent)

\* The entries the scan is to consider
Expected ==
  {n \in Nodes : /\ Reachable(n)
                 /\ Tree[n].kind = "file"
                 /\ Head(Tree[n].name) # "."
                 /\ \E e \in EXTENSIONS : EndsWithAnyCase(Tree[n].name, e)}

\* C9: the enumerated files are exactly the regular files below the target
\* whose name does not start with a dot and whose extension, case ignored,
\* is in the allow-list; only those get a work item, are counted in the
\* total and are listed in a group.
C9_EnumerationExact ==
  LET expected == Expected
  IN  /\ (rootKind = "dir" /\ pc \notin {"start", "enumerate"}) => Enumerated = expected
      /\ Len(files) = Cardinality(Enumerated)
      /\ DOMAIN task \subseteq DOMAIN files
      /\ \A i \in DOMAIN delivered : \E n \in expected : delivered[i].path = str(n)
      /\ Reported =>
           /\ ReportTotal = Cardinality(expected)
           /\ \A i \in DOMAIN ReportGroups :
                \A p \in Members(ReportGroups[i]) : \E n \in expected : str(n) = p

C9_Witness ==
  /\ Reported
  /\ Enumerated = {3, 5, 7}
  /\ Len(ReportGroups) = 1

\* The results handed to the coordinator so far are results of input files,
\* one at most per file, each a returned pair carrying the file's digest or
\* no digest
DeliveredSafe ==
  /\ Len(delivered) <= Len(files)
  /\ \A i \in DOMAIN delivered :
       /\ delivered[i].kind = "ret"
       /\ \E t \in Tasks :
            /\ delivered[i].path = str(files[t])
            /\ delivered[i].digest \in {None, WholeDigest(content[files[t]])}
  /\ \A i, j \in DOMAIN delivered : i # j => delivered[i].path # delivered[j].path

\* Every input file has exactly one result in the coordinator's hands
AllDelivered ==
  /\ Len(delivered) = Len(files)
  /\ \A t \in Tasks :
       Cardinality({i \in DOMAIN delivered : delivered[i].path = str(files[t])}) = 1

\* C6: for a non-empty file list and every fair scheduling of the pool, the
\* coordinator eventually holds exactly one (path, digest-or-None) result per
\* input file; at no time does it hold two results of one file or a result
\* of a path that was not an input.
C6_OneResultPerFile ==
  /\ [] DeliveredSafe
  /\ (pc = "hashing") ~> AllDelivered

C6_Witness ==
  /\ AllDelivered
  /\ Len(files) = 4
  /\ \E i \in DOMAIN delivered : delivered[i].digest = None
  /\ \E i \in DOMAIN delivered : delivered[i].digest # None

\* Position of work item t in the order of completion
Finished(t) == CHOOSE i \in DOMAIN completed : completed[i] = t
\* Index in the input list of the file written as `path`
TaskOf(path) == CHOOSE t \in Tasks : str(files[t]) = path

\* C10 as stated: within every group of the report the paths are listed in
\* the order in which their hashing completed.
C10_CompletionOrder ==
  Reported =>
    \A g \in DOMAIN ReportGroups :
      \A i, j \in DOMAIN ReportGroups[g].paths :
        i < j => Finished(TaskOf(ReportGroups[g].paths[i]))
                   < Finished(TaskOf(ReportGroups[g].paths[j]))

\* C10 as amended: within every group of the report the paths are listed in
\* the order of the enumerated file list, whatever the order of completion.
C10_InputOrder ==
  Reported =>
    \A g \in DOMAIN ReportGroups :
      \A i, j \in DOMAIN ReportGroups[g].paths :
        i < j => TaskOf(ReportGroups[g].paths[i]) < TaskOf(ReportGroups[g].paths[j])

C10_Witness ==
  /\ Reported
  /\ \E g \in DOMAIN ReportGroups :
       \E i, j \in DOMAIN ReportGroups[g].paths :
         /\ i < j
         /\ Finished(TaskOf(ReportGroups[g].paths[j]))
              < Finished(TaskOf(ReportGroups[g].paths[i]))

\* Position among the collected results of the first one carrying digest h
FirstSeen(h) ==
  CHOOSE i \in DOMAIN delivered :
    /\ delivered[i].digest.present /\ delivered[i].digest.hex = h
    /\ \A j \in 1..(i - 1) : ~ (delivered[j].digest.present /\ delivered[j].digest.hex = h)

GroupSets(lines) ==
  LET gs == ReadGroups(lines, <<>>)
  IN  {Members(gs[i]) : i \in DOMAIN gs}

\* C12: a second run over the unmodified tree (the same files, contents and
\* readability as the first run left them), under any scheduling of either
\* run, reports the same groups as the first, each group taken as a set of
\* paths.
C12_RerunSameGroups ==
  (second /\ Reported) => GroupSets(outFiles[1]) = GroupSets(prevReport[1])

C12_Witness ==
  /\ second
  /\ Reported
  /\ GroupSets(outFiles[1]) # {}
  /\ \E n \in Candidates : fstate[n] = "deleted"
  /\ \E n \in Candidates : fstate[n] = "ioerror"

\* C13: two runs in one working directory write their reports under
\* different names, so the second run leaves the first run's report in
\* place: after the second report both files exist.
C13_DistinctReportNames ==
  (second /\ Reported) =>
    \E f, g \in disk : f.run = 1 /\ g.run = 2 /\ f.name # g.name

\* The run has ended after dispatching work and without a report: the
\* output file could not be created
WriteFailed == pc = "exited" /\ files # <<>> /\ outFiles = <<>>

\* C14: when the report file cannot be created the run ends with a non-zero
\* exit status and without the completion message, and this happens only
\* after the result of every work item was collected and the duplicates
\* were extracted.
C14_WriteFailureIsFatal ==
  WriteFailed =>
    /\ exitStatus > 0
    /\ \A i \in DOMAIN stdout : stdout[i] \notin {"done", "dupwarn"}
    /\ disk = {}
    /\ \A t \in DOMAIN task : task[t].st = "done"
    /\ Len(delivered) = Len(files)
    /\ duplicates = ExtractDuplicates(results)

C14_Witness ==
  /\ WriteFailed
  /\ exitStatus = 1
  /\ Len(files) = 4
  /\ duplicates # <<>>

\* The lines of one kind in a report text
LinesOf(lines, kind) == SelectSeq(lines, LAMBDA l : l.t = kind)

\* C15: the body of the report agrees with the extracted duplicates: the
\* "no duplicates" notice is there iff there is no group, and then nothing
\* is listed; otherwise one count line gives the number of group listings,
\* the listings are numbered 1..n in order, and the n-th listing holds the
\* digest and the paths of the n-th group, no more and no less.
C15_ReportBodyConsistent ==
  Reported =>
    LET body == outFiles[1]
        groups == LinesOf(body, "group")
        counts == LinesOf(body, "count")
    IN  /\ (LinesOf(body, "nodup") # <<>>) <=> (duplicates = <<>>)
        /\ Len(LinesOf(body, "nodup")) <= 1
        /\ LinesOf(body, "nodup") # <<>> =>
             groups = <<>> /\ counts = <<>> /\ LinesOf(body, "path") = <<>>
        /\ LinesOf(body, "nodup") = <<>> =>
             /\ Len(counts) = 1
             /\ counts[1].i = Len(groups)
             /\ counts[1].i = Len(duplicates)
        /\ \A k \in DOMAIN groups : groups[k].i = k
        /\ ReadGroups(body, <<>>) = duplicates
        /\ Len(LinesOf(body, "blank")) = 1 + (IF groups = <<>> THEN 0 ELSE 1 + Len(groups))

C15_Witness ==
  /\ Reported
  /\ Len(LinesOf(outFiles[1], "group")) = 2
  /\ Len(LinesOf(outFiles[1], "path")) = 4

\* A step of a worker: some work item changes while the list of work items
\* stays as dispatched
WorkerStep == DOMAIN task' = DOMAIN task /\ task' # task

\* The paths merged into the digest map
Merged == UNION {Members(results[i]) : i \in DOMAIN results}

\* Aggregation is finished: the filter has run or the report is being written
Aggregated == pc = "write" \/ (pc = "exited" /\ files # <<>>)

\* C16 (steps): a worker's step changes one work item, its own, and nothing
\* of the coordinator: not the digest map, the duplicates, the collected
\* results or the output; and a step that changes the digest map is a
\* step of the coordinator, which changes no work item.
C16_StepsKeepApart ==
  /\ WorkerStep =>
       /\ Cardinality({t \in DOMAIN task : task'[t] # task[t]}) = 1
       /\ UNCHANGED << results, duplicates, delivered, collected, outFiles, disk, pc >>
  /\ results' # results =>
       /\ UNCHANGED << task, completed >>
       /\ pc = "hashing" \/ pc = "enumerate"

\* C16 (state): the filter and the report come only after the result of
\* every input file was merged: then every work item is done and collected
\* and the map holds exactly the paths of the digests that were returned.
C16_MergedBeforeFilter ==
  Aggregated =>
    /\ \A t \in DOMAIN task : task[t].st = "done"
    /\ collected = Len(files)
    /\ Merged = {task[t].res.path : t \in {u \in DOMAIN task : task[u].res.digest.present}}

\* C16: workers share no mutable state with each other or with the
\* coordinator, which alone reads and changes the aggregation map, and the
\* duplicate filter and the report begin only after every result is merged.
C16_NoSharedState ==
  /\ [][C16_StepsKeepApart]_vars
  /\ [] C16_MergedBeforeFilter

C16_Witness ==
  /\ pc = "write"
  /\ Len(files) = 4
  /\ Cardinality(Merged) = 3
  /\ Len(results) = 2

\* What the report must list, computed from the input list and the outcome
\* of each file alone: the digest of input t, or nothing if it failed
Outcome(t) ==
  IF HashFailed(files[t]) THEN <<>> ELSE WholeDigest(content[files[t]]).hex

\* The inputs that share the digest of input t
Class(t) == {u \in Tasks : Outcome(u) # <<>> /\ Outcome(u) = Outcome(t)}

Indices == [i \in 1..Len(files) |-> i]

\* The first input of every class of two or more, in input order
Heads ==
  SelectSeq(Indices, LAMBDA t : /\ Outcome(t) # <<>>
                                /\ Cardinality(Class(t)) >= 2
                                /\ \A u \in Class(t) : t <= u)

RefGroups ==
  [k \in DOMAIN Heads |->
     LET cls == SelectSeq(Indices, LAMBDA u : u \in Class(Heads[k]))
     IN  [h |-> Outcome(Heads[k]), paths |-> [j \in DOMAIN cls |-> str(files[cls[j]])]]]

\* C17: the report below its header is a function of the input list and of
\* the per-file outcomes: whatever the interleaving and the order of
\* completion in the pool, the groups and the paths inside each group are
\* those of a sequential pass over the input list.
C17_ReportIndependentOfSchedule ==
  Reported =>
    /\ ReportGroups = RefGroups
    /\ ReportTotal = Len(files)
    /\ (LinesOf(outFiles[1], "nodup") # <<>>) <=> (RefGroups = <<>>)

C17_Witness ==
  /\ Reported
  /\ Len(ReportGroups) = 2
  /\ completed[1] = 2
  /\ completed[Len(completed)] = 3

\* The three classes of enumerated files after aggregation
FailedFiles == {n \in Enumerated : HashFailed(n)}
UniqueFiles ==
  {n \in Enumerated :
     \E i \in DOMAIN results : results[i].paths = << str(n) >>}
GroupedFiles == {n \in Enumerated : GroupsOf(str(n)) # {}}

RECURSIVE SumSizes(_)
SumSizes(gs) == IF gs = <<>> THEN 0 ELSE Len(Head(gs).paths) + SumSizes(Tail(gs))

\* C18: once the report is written every enumerated file is in exactly one
\* class: its hashing failed, or it is alone with its digest and the size
\* filter dropped it, or it is a member of exactly one group; so the failed
\* files, the unique files and the sizes of all groups add up to the total
\* written in the report.
C18_ThreeClassesPartition ==
  Reported =>
    /\ FailedFiles \cup UniqueFiles \cup GroupedFiles = Enumerated
    /\ FailedFiles \cap UniqueFiles = {}
    /\ FailedFiles \cap GroupedFiles = {}
    /\ UniqueFiles \cap GroupedFiles = {}
    /\ \A n \in GroupedFiles : Cardinality(GroupsOf(str(n))) = 1
    /\ \A n \in UniqueFiles :
         \A m \in Enumerated \ (FailedFiles \cup {n}) :
           WholeDigest(content[m]) # WholeDigest(content[n])
    /\ Cardinality(FailedFiles) + Cardinality(UniqueFiles) + SumSizes(ReportGroups)
         = ReportTotal

C18_Witness ==
  /\ Reported
  /\ Cardinality(FailedFiles) = 1
  /\ Cardinality(UniqueFiles) = 1
  /\ Cardinality(GroupedFiles) = 2

====
